---- MODULE Spec2Model ----
(***************************************************************************)
(* Model of scripts/sdocs-upserter.js, the S-Docs template upserter        *)
(* (specification Spec), and of the k6 load-test scripts under             *)
(* k6-test-scripts/ (specification SpecK6).                                *)
(*                                                                         *)
(* The environment (the outcome of the two CLI commands, the state of the  *)
(* templates directory and the content of each directory entry) is chosen  *)
(* in Init; main() then runs step by step, its position held in pc.        *)
(*                                                                         *)
(* The correlation engine described in spec.md (TraceRegistry,             *)
(* StageRecorder, TimeoutSweeper, StatsAggregator) has no implementation,  *)
(* test, declaration or caller in the repository, so it has no             *)
(* definitions here.                                                       *)
(***************************************************************************)
EXTENDS Integers, Sequences, FiniteSets, TLC

\* Largest number of entries in data/sdocsTemplates that is enumerated.
MaxFiles == 3

\* Largest number of iterations of a load-test script's default function.
MaxIters == 3

\* Outcome of one `... org display --json` command followed by JSON.parse
\* and data.result.username:
\*   "fail"  execSync throws, the output is not JSON, or data.result is
\*           missing (TypeError);
\*   "user"  data.result.username is a username;
\*   "undef" data.result exists but has no username (undefined, no throw).
CmdOutcomes == {"fail", "user", "undef"}

\* State of data/sdocsTemplates when getTemplateFiles runs:
\*   "missing"    existsSync is false and mkdirSync can create it;
\*   "uncreatable" existsSync is false and mkdirSync throws (a read-only
\*                working directory, or `data` is a regular file);
\*   "ok"         readdirSync lists the entries;
\*   "unreadable" existsSync is true and readdirSync throws.
DirStates == {"missing", "uncreatable", "ok", "unreadable"}

\* What fs.readFileSync + JSON.parse yield for one directory entry:
\*   "unreadable"  readFileSync throws;
\*   "invalidJson" JSON.parse throws;
\*   "null"        the JSON value null (reading .Name throws TypeError);
\*   "scalar"      a JSON number, string, boolean or array (.Name undefined);
\*   "noName"      an object without a Name field;
\*   "emptyName"   an object whose Name is falsy ("", 0, false, null);
\*   "named"       an object whose Name is truthy.
Contents == {"unreadable", "invalidJson", "null", "scalar", "noName",
             "emptyName", "named"}

\* A directory entry: whether its name ends with '.json', and its content.
Entries == [json : BOOLEAN, content : Contents]

RECURSIVE SeqsUpTo(_, _)
SeqsUpTo(S, n) ==
    IF n = 0 THEN {<<>>}
    ELSE LET shorter == SeqsUpTo(S, n - 1)
         IN  shorter \cup {Append(s, e) : s \in {t \in shorter : Len(t) = n - 1}, e \in S}

VARIABLES
    pc,             \* position of main(): "start", "read", "loop", "done", "exited"
    sfOutcome,      \* outcome of `sf org display --json`
    sfdxOutcome,    \* outcome of `sfdx force:org:display --json`
    dirState,       \* state of data/sdocsTemplates
    dirEntries,     \* entries of data/sdocsTemplates, in readdirSync order
    dirRead,        \* TRUE once getTemplateFiles has been called
    dirCreated,     \* TRUE once mkdirSync has created the directory
    cmdsRun,        \* CLI commands executed so far, in order
    orgUsername,    \* main's orgUsername: "none" before step 1
    templateFiles,  \* main's templateFiles
    idx,            \* index of the next templateFile of the for-of loop
    upserted,       \* arguments of the upsertTemplate calls made so far
    successCount,
    failureCount,
    exitCode,       \* -1 while running, else the process's exit code
    script,         \* the load-test script that k6 runs, "none" for no run
    bufferDefined,  \* whether the JS runtime defines the global Buffer
    blobDefined,    \* whether the JS runtime defines the global Blob
    kpc,            \* position of the k6 run: "idle", "running", "summarized"
    iterations,     \* iterations of the default function started so far
    lastCall,       \* the latest simulateKinesisPutRecord call and its result
    recordsSent,    \* the kinesis_records_sent counter
    recordsFailed,  \* the kinesis_records_failed counter
    analysis        \* summary.analysis as built by the spike test's handleSummary

upserterVars == <<pc, sfOutcome, sfdxOutcome, dirState, dirEntries, dirRead,
                  dirCreated, cmdsRun, orgUsername, templateFiles, idx,
                  upserted, successCount, failureCount, exitCode>>

k6Vars == <<script, bufferDefined, blobDefined, kpc, iterations, lastCall,
            recordsSent, recordsFailed, analysis>>

vars == <<upserterVars, k6Vars>>

\* getConnectedOrg with the inner catch swallowing the failure of both
\* commands instead of throwing.
getConnectedOrgSwallows(sf, sfdx) ==
    IF sf # "fail"
    THEN [cmds |-> <<"sf">>, throws |-> FALSE, username |-> sf]
    ELSE IF sfdx # "fail"
         THEN [cmds |-> <<"sf", "sfdx">>, throws |-> FALSE, username |-> sfdx]
         ELSE [cmds |-> <<"sf", "sfdx">>, throws |-> FALSE, username |-> "undef"]

\* getConnectedOrg trying the legacy sfdx command first and sf as fallback.
getConnectedOrgLegacyFirst(sf, sfdx) ==
    IF sfdx # "fail"
    THEN [cmds |-> <<"sfdx">>, throws |-> FALSE, username |-> sfdx]
    ELSE IF sf # "fail"
         THEN [cmds |-> <<"sfdx", "sf">>, throws |-> FALSE, username |-> sf]
         ELSE [cmds |-> <<"sfdx", "sf">>, throws |-> TRUE, username |-> "none"]

\* getConnectedOrg(): the commands it runs, whether it throws, and the value
\* it returns.
getConnectedOrg(sf, sfdx) ==
    IF sf # "fail"
    THEN [cmds |-> <<"sf">>, throws |-> FALSE, username |-> sf]
    ELSE IF sfdx # "fail"
         THEN [cmds |-> <<"sf", "sfdx">>, throws |-> FALSE, username |-> sfdx]
         ELSE [cmds |-> <<"sf", "sfdx">>, throws |-> TRUE, username |-> "none"]

\* files.filter(file => file.endsWith('.json'))
RECURSIVE FilterJson(_)
FilterJson(s) ==
    IF s = <<>> THEN <<>>
    ELSE IF Head(s).json THEN <<Head(s)>> \o FilterJson(Tail(s))
         ELSE FilterJson(Tail(s))

\* getTemplateFiles without the '.json' filter on the directory listing.
getTemplateFilesNoFilter(state, entries) ==
    CASE state = "missing"     -> [throws |-> FALSE, files |-> <<>>, dir |-> "ok",
                                   created |-> TRUE]
      [] state = "uncreatable" -> [throws |-> TRUE, files |-> <<>>, dir |-> state,
                                   created |-> FALSE]
      [] state = "unreadable"  -> [throws |-> TRUE, files |-> <<>>, dir |-> state,
                                   created |-> FALSE]
      [] OTHER                 -> [throws |-> FALSE, files |-> entries,
                                   dir |-> state, created |-> FALSE]

\* getTemplateFiles(): whether it throws, the list it returns, the state of
\* the directory afterwards and whether mkdirSync created it.
getTemplateFiles(state, entries) ==
    CASE state = "missing"     -> [throws |-> FALSE, files |-> <<>>, dir |-> "ok",
                                   created |-> TRUE]
      [] state = "uncreatable" -> [throws |-> TRUE, files |-> <<>>, dir |-> state,
                                   created |-> FALSE]
      [] state = "unreadable"  -> [throws |-> TRUE, files |-> <<>>, dir |-> state,
                                   created |-> FALSE]
      [] OTHER                 -> [throws |-> FALSE, files |-> FilterJson(entries),
                                   dir |-> state, created |-> FALSE]

\* upsertTemplate(templateFile): every throw inside is caught and gives false.
upsertTemplate(file) == file.content = "named"

\* The load-test scripts' state when k6 is not run.
K6Idle ==
    /\ script = "none"
    /\ bufferDefined = FALSE
    /\ blobDefined = FALSE
    /\ kpc = "idle"
    /\ iterations = 0
    /\ lastCall = [called |-> FALSE, threw |-> FALSE, status |-> 0,
                   seq |-> FALSE, phase |-> "none"]
    /\ recordsSent = 0
    /\ recordsFailed = 0
    /\ analysis = [built |-> FALSE, rate |-> 0, p95 |-> 0,
                   success_rate |-> FALSE, p95_latency |-> FALSE,
                   recommendations |-> <<>>]

Init ==
    /\ K6Idle
    /\ pc = "start"
    /\ sfOutcome \in CmdOutcomes
    /\ sfdxOutcome \in CmdOutcomes
    /\ dirState \in DirStates
    /\ dirEntries \in SeqsUpTo(Entries, MaxFiles)
    /\ (dirState \in {"missing", "uncreatable"} => dirEntries = <<>>)
    /\ dirRead = FALSE
    /\ dirCreated = FALSE
    /\ cmdsRun = <<>>
    /\ orgUsername = "none"
    /\ templateFiles = <<>>
    /\ idx = 1
    /\ upserted = <<>>
    /\ successCount = 0
    /\ failureCount = 0
    /\ exitCode = -1

\* main, step 1: verify the Salesforce connection; a throw is caught by
\* main's catch block, which exits with code 1.
VerifyConnection ==
    /\ pc = "start"
    /\ LET r == getConnectedOrg(sfOutcome, sfdxOutcome)
       IN  /\ cmdsRun' = cmdsRun \o r.cmds
           /\ IF r.throws
              THEN /\ pc' = "exited"
                   /\ exitCode' = 1
                   /\ orgUsername' = orgUsername
              ELSE /\ pc' = "read"
                   /\ exitCode' = exitCode
                   /\ orgUsername' = r.username
    /\ UNCHANGED <<sfOutcome, sfdxOutcome, dirState, dirEntries, dirRead,
                   dirCreated, templateFiles, idx, upserted, successCount, failureCount>>
    /\ UNCHANGED k6Vars

\* main, step 2: read the template files; an empty list returns from main.
ReadTemplateFiles ==
    /\ pc = "read"
    /\ LET r == getTemplateFiles(dirState, dirEntries)
       IN  /\ dirState' = r.dir
           /\ dirRead' = TRUE
           /\ dirCreated' = r.created
           /\ templateFiles' = r.files
           /\ IF r.throws
              THEN pc' = "exited" /\ exitCode' = 1
              ELSE IF Len(r.files) = 0
                   THEN pc' = "done" /\ exitCode' = 0
                   ELSE pc' = "loop" /\ exitCode' = exitCode
    /\ UNCHANGED <<sfOutcome, sfdxOutcome, dirEntries, cmdsRun, orgUsername,
                   idx, upserted, successCount, failureCount>>
    /\ UNCHANGED k6Vars

\* The loop with a failed template ending the loop (a break on failure).
UpsertNextStopsOnFailure ==
    /\ pc = "loop"
    /\ idx <= Len(templateFiles)
    /\ LET file == templateFiles[idx]
       IN  /\ upserted' = Append(upserted, idx)
           /\ IF upsertTemplate(file)
              THEN /\ successCount' = successCount + 1
                   /\ failureCount' = failureCount
                   /\ idx' = idx + 1
              ELSE /\ failureCount' = failureCount + 1
                   /\ successCount' = successCount
                   /\ idx' = Len(templateFiles) + 1
    /\ UNCHANGED <<pc, sfOutcome, sfdxOutcome, dirState, dirEntries, dirRead,
                   dirCreated, cmdsRun, orgUsername, templateFiles, exitCode>>
    /\ UNCHANGED k6Vars

\* main, step 3: one iteration of the for-of loop.
UpsertNext ==
    /\ pc = "loop"
    /\ idx <= Len(templateFiles)
    /\ LET file == templateFiles[idx]
       IN  /\ upserted' = Append(upserted, idx)
           /\ IF upsertTemplate(file)
              THEN successCount' = successCount + 1 /\ failureCount' = failureCount
              ELSE failureCount' = failureCount + 1 /\ successCount' = successCount
    /\ idx' = idx + 1
    /\ UNCHANGED <<pc, sfOutcome, sfdxOutcome, dirState, dirEntries, dirRead,
                   dirCreated, cmdsRun, orgUsername, templateFiles, exitCode>>
    /\ UNCHANGED k6Vars

\* The summary without the process.exit(1) on failures.
SummaryNeverExits1 ==
    /\ pc = "loop"
    /\ idx > Len(templateFiles)
    /\ pc' = "done"
    /\ exitCode' = 0
    /\ UNCHANGED <<sfOutcome, sfdxOutcome, dirState, dirEntries, dirRead,
                   dirCreated, cmdsRun, orgUsername, templateFiles, idx, upserted,
                   successCount, failureCount>>
    /\ UNCHANGED k6Vars

\* main, step 4: the summary and the exit code.
Summary ==
    /\ pc = "loop"
    /\ idx > Len(templateFiles)
    /\ IF failureCount > 0
       THEN pc' = "exited" /\ exitCode' = 1
       ELSE pc' = "done" /\ exitCode' = 0
    /\ UNCHANGED <<sfOutcome, sfdxOutcome, dirState, dirEntries, dirRead,
                   dirCreated, cmdsRun, orgUsername, templateFiles, idx, upserted,
                   successCount, failureCount>>
    /\ UNCHANGED k6Vars

Next ==
    \/ VerifyConnection
    \/ ReadTemplateFiles
    \/ UpsertNext
    \/ Summary

Spec == Init /\ [][Next]_vars

TypeOK ==
    /\ pc \in {"start", "read", "loop", "done", "exited"}
    /\ sfOutcome \in CmdOutcomes
    /\ sfdxOutcome \in CmdOutcomes
    /\ dirState \in DirStates
    /\ Len(dirEntries) <= MaxFiles
    /\ dirRead \in BOOLEAN
    /\ dirCreated \in BOOLEAN
    /\ orgUsername \in {"none", "user", "undef"}
    /\ idx \in 1..(MaxFiles + 1)
    /\ successCount \in 0..MaxFiles
    /\ failureCount \in 0..MaxFiles
    /\ exitCode \in {-1, 0, 1}

(***************************************************************************)
(* The k6 load-test scripts: k6-test-scripts/baseline-100b.js,             *)
(* baseline-500b.js and spike-test.js.                                     *)
(***************************************************************************)

Scripts == {"baseline-100b", "baseline-500b", "spike-test"}

\* Values of Date.now() - START_TIME, in ms, tried for an iteration; 0 is
\* also what `Date.now() - __ENV.START_TIME || 0` gives when START_TIME is
\* not visible to the virtual user (NaN || 0).
ElapsedValues == {0, 119999, 120000, 150000, 449999, 450000, 480000, 780000}

\* Values of floor(100 * Math.random()) tried for a call of the stub.
RandomDraws == {0, 1, 4, 5, 50, 99}

\* A metric value of the summary data: absent, or a number.  Rates are in
\* thousandths (0.95 is 950), durations in ms.
RateInputs ==
    {[defined |-> FALSE, v |-> 0]} \cup
    {[defined |-> TRUE, v |-> x] : x \in {0, 500, 949, 950, 951, 1000}}

P95Inputs ==
    {[defined |-> FALSE, v |-> 0]} \cup
    {[defined |-> TRUE, v |-> x] : x \in {0, 299, 300, 301, 1000}}

\* data.metrics.<name>?.values?.<stat> || 0
OrZero(m) == IF m.defined THEN m.v ELSE 0

\* spike-test.js getCurrentSpikePhase(), from the elapsed time.
getCurrentSpikePhase(elapsed) ==
    CASE elapsed < 120000 -> "normal-baseline"
      [] elapsed >= 120000 /\ elapsed < 150000 -> "ramping-spike"
      [] elapsed >= 150000 /\ elapsed < 450000 -> "spike"
      [] elapsed >= 450000 /\ elapsed < 480000 -> "ramping-normal"
      [] elapsed >= 480000 /\ elapsed < 780000 -> "recovery"
      [] OTHER -> "ramp-down"

\* The mock success response: status 200, json('SequenceNumber') defined.
MockSuccess(phase) ==
    [called |-> TRUE, threw |-> FALSE, status |-> 200, seq |-> TRUE,
     phase |-> phase]

\* The throttled response: status 429, json(key) undefined.
Throttled(phase) ==
    [called |-> TRUE, threw |-> FALSE, status |-> 429, seq |-> FALSE,
     phase |-> phase]

\* The call ended in a ReferenceError (Buffer is not defined).
Threw(phase) ==
    [called |-> TRUE, threw |-> TRUE, status |-> 0, seq |-> FALSE,
     phase |-> phase]

\* simulateKinesisPutRecord with the spike test's throttling branch
\* returning status 200 without a sequence number.
simulateKinesisPutRecordThrottle200(scr, phase, rnd, bufDef) ==
    CASE scr = "baseline-100b" ->
            IF bufDef THEN MockSuccess(phase) ELSE Threw(phase)
      [] scr = "baseline-500b" -> MockSuccess(phase)
      [] OTHER ->
            LET failureRate == IF phase = "spike" THEN 5 ELSE 1
            IN  IF rnd < failureRate
                THEN [Throttled(phase) EXCEPT !.status = 200]
                ELSE MockSuccess(phase)

\* simulateKinesisPutRecord(streamName, data, partitionKey) of each script;
\* rnd is floor(100 * Math.random()), failureRate is in hundredths.
simulateKinesisPutRecord(scr, phase, rnd, bufDef) ==
    CASE scr = "baseline-100b" ->
            IF bufDef THEN MockSuccess(phase) ELSE Threw(phase)
      [] scr = "baseline-500b" -> MockSuccess(phase)
      [] OTHER ->
            LET failureRate == IF phase = "spike" THEN 5 ELSE 1
            IN  IF rnd < failureRate THEN Throttled(phase) ELSE MockSuccess(phase)

\* spike-test.js checkThresholds(data).
checkThresholds(rate, p95) ==
    [success_rate |-> OrZero(rate) > 950, p95_latency |-> OrZero(p95) < 300]

\* spike-test.js generateRecommendations(data).
generateRecommendations(rate, p95) ==
    LET r1 == IF OrZero(rate) < 950
              THEN <<"Consider increasing Kinesis shard count",
                     "Review Lambda concurrency limits">>
              ELSE <<>>
        r2 == IF OrZero(p95) > 300
              THEN r1 \o <<"Optimize Lambda function cold start time",
                            "Consider provisioned concurrency for Lambda">>
              ELSE r1
    IN  IF Len(r2) = 0
        THEN <<"System handled spike well - no immediate action needed">>
        ELSE r2

\* The upserter's state when only k6 is run.
UpserterIdle ==
    /\ pc = "start"
    /\ sfOutcome = "fail"
    /\ sfdxOutcome = "fail"
    /\ dirState = "missing"
    /\ dirEntries = <<>>
    /\ dirRead = FALSE
    /\ dirCreated = FALSE
    /\ cmdsRun = <<>>
    /\ orgUsername = "none"
    /\ templateFiles = <<>>
    /\ idx = 1
    /\ upserted = <<>>
    /\ successCount = 0
    /\ failureCount = 0
    /\ exitCode = -1

\* k6 has loaded one of the scripts and run its setup().
InitK6 ==
    /\ UpserterIdle
    /\ script \in Scripts
    /\ bufferDefined \in BOOLEAN
    /\ blobDefined \in BOOLEAN
    /\ kpc = "running"
    /\ iterations = 0
    /\ lastCall = [called |-> FALSE, threw |-> FALSE, status |-> 0,
                   seq |-> FALSE, phase |-> "none"]
    /\ recordsSent = 0
    /\ recordsFailed = 0
    /\ analysis = [built |-> FALSE, rate |-> 0, p95 |-> 0,
                   success_rate |-> FALSE, p95_latency |-> FALSE,
                   recommendations |-> <<>>]

\* One iteration of a script's default function.  An exception ends the
\* iteration before any metric is added.  sizeOk is the outcome of the
\* 'payload size ~500 bytes' check of baseline-500b.
Iterate ==
    /\ kpc = "running"
    /\ iterations < MaxIters
    /\ iterations' = iterations + 1
    /\ \E elapsed \in ElapsedValues, rnd \in RandomDraws, sizeOk \in BOOLEAN :
          LET phase  == IF script = "spike-test"
                        THEN getCurrentSpikePhase(elapsed) ELSE "none"
              result == simulateKinesisPutRecord(script, phase, rnd, bufferDefined)
              checks == /\ result.status = 200
                        /\ result.seq
                        /\ (script = "baseline-500b" => sizeOk)
          IN  IF script = "baseline-500b" /\ ~blobDefined
              THEN UNCHANGED <<lastCall, recordsSent, recordsFailed>>
              ELSE /\ lastCall' = result
                   /\ IF result.threw
                      THEN UNCHANGED <<recordsSent, recordsFailed>>
                      ELSE IF checks
                           THEN /\ recordsSent' = recordsSent + 1
                                /\ recordsFailed' = recordsFailed
                           ELSE /\ recordsFailed' = recordsFailed + 1
                                /\ recordsSent' = recordsSent
    /\ UNCHANGED <<script, bufferDefined, blobDefined, kpc, analysis>>
    /\ UNCHANGED upserterVars

\* spike-test.js handleSummary(data): the analysis part of the summary.
HandleSummarySpike ==
    /\ kpc = "running"
    /\ script = "spike-test"
    /\ kpc' = "summarized"
    /\ \E rate \in RateInputs, p95 \in P95Inputs :
          LET passed == checkThresholds(rate, p95)
          IN  analysis' = [built |-> TRUE, rate |-> OrZero(rate),
                           p95 |-> OrZero(p95),
                           success_rate |-> passed.success_rate,
                           p95_latency |-> passed.p95_latency,
                           recommendations |-> generateRecommendations(rate, p95)]
    /\ UNCHANGED <<script, bufferDefined, blobDefined, iterations, lastCall,
                   recordsSent, recordsFailed>>
    /\ UNCHANGED upserterVars

\* handleSummary(data) of the baseline scripts: the summary holds metric
\* values only, no analysis.
HandleSummaryBaseline ==
    /\ kpc = "running"
    /\ script \in {"baseline-100b", "baseline-500b"}
    /\ kpc' = "summarized"
    /\ UNCHANGED <<script, bufferDefined, blobDefined, iterations, lastCall,
                   recordsSent, recordsFailed, analysis>>
    /\ UNCHANGED upserterVars

NextK6 ==
    \/ Iterate
    \/ HandleSummarySpike
    \/ HandleSummaryBaseline

SpecK6 == InitK6 /\ [][NextK6]_vars

\* main has ended, by returning or by process.exit.
Finished == pc \in {"done", "exited"}

\* C18: once the org connection succeeded and at least one template file was
\* found, main ends only after upsertTemplate ran for all templates, with
\* exit code 1 if any template failed and with exit code 0 (a normal return)
\* if all succeeded.
C18_ExitCodeReflectsFailures ==
    (Finished /\ orgUsername # "none" /\ Len(templateFiles) > 0) =>
        /\ Len(upserted) = Len(templateFiles)
        /\ exitCode = IF \E i \in 1..Len(templateFiles) :
                              ~upsertTemplate(templateFiles[i])
                      THEN 1 ELSE 0
        /\ (pc = "done") = (exitCode = 0)

\* C18 witness: main has exited with code 1 after processing a list that
\* holds both a succeeding and a failing template.
C18_Witness ==
    /\ pc = "exited"
    /\ exitCode = 1
    /\ orgUsername = "user"
    /\ Len(upserted) = Len(templateFiles)
    /\ successCount >= 1
    /\ failureCount >= 1

NumJson(entries) == Cardinality({i \in 1..Len(entries) : entries[i].json})

\* Number of the first n template files that are not a readable JSON object
\* with a Name.
NumFailing(n) ==
    Cardinality({i \in 1..n : templateFiles[i].content \in Contents \ {"named"}})

\* C20: a failing template is counted as failed and the loop goes on:
\* during the loop upsertTemplate has been called exactly once, in order,
\* for each file before idx, and at the summary it has been called exactly
\* once for every .json file of the directory, with successCount +
\* failureCount equal to the number of template files.
C20_EveryTemplateCountedOnce ==
    /\ pc = "loop" =>
           /\ upserted = [i \in 1..(idx - 1) |-> i]
           /\ failureCount = NumFailing(idx - 1)
           /\ successCount + failureCount = idx - 1
    /\ (Finished /\ Len(templateFiles) > 0) =>
           /\ upserted = [i \in 1..Len(templateFiles) |-> i]
           /\ Len(templateFiles) = NumJson(dirEntries)
           /\ failureCount = NumFailing(Len(templateFiles))
           /\ successCount + failureCount = Len(templateFiles)

\* C20 witness: the first template failed, a later one was still processed
\* and succeeded, and a directory entry that is not a .json file was skipped.
C20_Witness ==
    /\ Finished
    /\ Len(templateFiles) >= 2
    /\ templateFiles[1].content = "invalidJson"
    /\ successCount >= 1
    /\ Len(upserted) = Len(templateFiles)
    /\ Len(dirEntries) > Len(templateFiles)

\* The file's content parses as JSON and the parsed value has a Name field.
HasNameField(file) == file.content \in {"emptyName", "named"}

\* C21: upsertTemplate(file) returns true exactly when the file's content is
\* valid JSON and its Name field exists, and false otherwise: after each
\* call, successCount is the number of processed files whose content is
\* valid JSON with a Name field.
C21_TrueIffValidJsonWithName ==
    (pc = "loop" \/ Finished) =>
        successCount =
            Cardinality({i \in 1..Len(upserted) : HasNameField(templateFiles[i])})

\* C28: getConnectedOrg runs `sf org display` first and returns the
\* username it reports; `sfdx force:org:display` is run only when the sf
\* command failed, and the error is raised only when both commands failed.
C28_SfFirstLegacyFallback ==
    pc # "start" =>
        /\ cmdsRun = IF sfOutcome = "fail" THEN <<"sf", "sfdx">> ELSE <<"sf">>
        /\ (sfOutcome # "fail" => orgUsername = sfOutcome)
        /\ (orgUsername = "none") = (sfOutcome = "fail" /\ sfdxOutcome = "fail")
        /\ (orgUsername = "none" => pc = "exited" /\ ~dirRead)

\* C28 witness: the sf command failed, the legacy command was run as the
\* fallback and its username was returned to main.
C28_Witness ==
    /\ pc = "read"
    /\ sfOutcome = "fail"
    /\ sfdxOutcome = "user"
    /\ cmdsRun = <<"sf", "sfdx">>
    /\ orgUsername = "user"

\* The templates directory does not exist (mkdirSync has not created it) or
\* exists and lists no '.json' entry.
MissingOrNoJson ==
    \/ dirState \in {"missing", "uncreatable"}
    \/ dirState = "ok" /\ NumJson(dirEntries) = 0

\* C29 as stated: when the templates directory is missing or holds no .json
\* file, main ends normally after getTemplateFiles, with no upsertTemplate
\* call and no exit code 1.
C29_MissingOrEmptyEndsNormally ==
    (dirRead /\ MissingOrNoJson) =>
        /\ pc = "done"
        /\ exitCode = 0
        /\ templateFiles = <<>>
        /\ upserted = <<>>

\* C29 amended: when the templates directory is missing and mkdirSync
\* creates it, or it is listed and holds no .json file, getTemplateFiles
\* returns an empty list and main ends normally with no upsertTemplate call;
\* when mkdirSync throws, main exits with code 1, also with no
\* upsertTemplate call.
C29_CreatedOrEmptyEndsNormally ==
    dirRead =>
        /\ dirState # "missing"
        /\ (dirState = "ok" /\ NumJson(dirEntries) = 0) =>
               /\ pc = "done"
               /\ exitCode = 0
               /\ templateFiles = <<>>
               /\ upserted = <<>>
        /\ dirCreated => (dirState = "ok" /\ dirEntries = <<>>)
        /\ dirState = "uncreatable" =>
               /\ pc = "exited"
               /\ exitCode = 1
               /\ ~dirCreated
               /\ upserted = <<>>

\* C29 witness: the directory was missing, getTemplateFiles created it and
\* main has returned normally.
C29_Witness ==
    /\ dirRead
    /\ dirCreated
    /\ dirState = "ok"
    /\ pc = "done"
    /\ exitCode = 0
    /\ upserted = <<>>

\* The latest call of the stub returned the hardcoded success response.
ReturnedSuccess ==
    /\ ~lastCall.threw
    /\ lastCall.status = 200
    /\ lastCall.seq

Remediations ==
    {"Consider increasing Kinesis shard count",
     "Review Lambda concurrency limits",
     "Optimize Lambda function cold start time",
     "Consider provisioned concurrency for Lambda"}

\* C30: in the spike test's summary the recommendations are never empty,
\* and whenever checkThresholds reports a failed threshold (success_rate or
\* p95_latency false) they hold at least one remediation and not the
\* 'System handled spike well' message.
C30_FailedThresholdHasRemediation ==
    analysis.built =>
        LET recs == {analysis.recommendations[i] :
                        i \in 1..Len(analysis.recommendations)}
        IN  /\ recs # {}
            /\ (~analysis.success_rate \/ ~analysis.p95_latency) =>
                   /\ recs \cap Remediations # {}
                   /\ "System handled spike well - no immediate action needed"
                          \notin recs

====
